---------------------------- MODULE Spec2Model ----------------------------
(***************************************************************************)
(* Model of the crane-operator scene controller                            *)
(* (static/scenes/craneoperator/js/scene.js): the responsive viewport      *)
(* layout pass calculateViewport_, the portrait toggle, getWidth and       *)
(* toggleVisibility.  The browser is the environment: every layout pass    *)
(* reads window.innerWidth, window.innerHeight and the Blockly toolbar     *)
(* width, which are inputs of the step that runs it.                       *)
(*                                                                         *)
(* JavaScript numbers are modelled as exact rationals <<num, den>> in      *)
(* lowest terms with den > 0; window dimensions, the toolbar width and the *)
(* cache keys are integers (CSS pixels).                                   *)
(*                                                                         *)
(* Two parts of the program that share no state with the layout have their *)
(* own specifications: the level and onFinishExecution of the scene        *)
(* (SpecLevel, variable play), and the pick handlers of HexGeometryMap     *)
(* (src/snowball/entities/hex-geometry-map.js; SpecHex, variable hex).     *)
(***************************************************************************)
EXTENDS Integers, Sequences, FiniteSets, TLC

VARIABLES scene, dom, sched, pass, last, probe, hex, play

vars == <<scene, dom, sched, pass, last, probe, hex, play>>

---------------------------------------------------------------------------
(* Numbers *)

Abs(x) == IF x < 0 THEN -x ELSE x

\* Euclid's algorithm on a pair of naturals
GCDf[p \in Nat \X Nat] ==
  IF p[2] = 0 THEN p[1] ELSE GCDf[<<p[2], p[1] % p[2]>>]
GCD(a, b) == GCDf[<<a, b>>]

\* the number p[1]/p[2], in lowest terms, sign carried by the numerator
NormF[p \in Int \X Int] ==
  LET g == GCDf[<<Abs(p[1]), Abs(p[2])>>]
      s == IF p[2] < 0 THEN -1 ELSE 1
  IN  <<(s * p[1]) \div g, (s * p[2]) \div g>>
Norm(n, d) == NormF[<<n, d>>]

Num(x) == <<x, 1>>

Pairs == (Int \X Int) \X (Int \X Int)

AddF[p \in Pairs] ==
  NormF[<<p[1][1] * p[2][2] + p[2][1] * p[1][2], p[1][2] * p[2][2]>>]
SubF[p \in Pairs] ==
  NormF[<<p[1][1] * p[2][2] - p[2][1] * p[1][2], p[1][2] * p[2][2]>>]
\* cross-reduced before multiplying, so that the products stay small
MulF[p \in Pairs] ==
  LET g1 == GCDf[<<Abs(p[1][1]), Abs(p[2][2])>>]
      g2 == GCDf[<<Abs(p[2][1]), Abs(p[1][2])>>]
  IN  NormF[<<(p[1][1] \div g1) * (p[2][1] \div g2),
              (p[1][2] \div g2) * (p[2][2] \div g1)>>]
DivF[p \in Pairs] ==
  MulF[<<p[1], IF p[2][1] < 0 THEN <<-p[2][2], -p[2][1]>>
               ELSE <<p[2][2], p[2][1]>> >>]
LtF[p \in Pairs] == p[1][1] * p[2][2] < p[2][1] * p[1][2]

RAdd(a, b) == AddF[<<a, b>>]
RSub(a, b) == SubF[<<a, b>>]
RMul(a, b) == MulF[<<a, b>>]
RDiv(a, b) == DivF[<<a, b>>]
RLt(a, b) == LtF[<<a, b>>]
RLe(a, b) == ~LtF[<<b, a>>]

\* Math.max / Math.min on numbers
MaxF[p \in Pairs] == IF LtF[p] THEN p[2] ELSE p[1]
MinF[p \in Pairs] == IF LtF[<<p[2], p[1]>>] THEN p[2] ELSE p[1]
MathMax(a, b) == MaxF[<<a, b>>]
MathMin(a, b) == MinF[<<a, b>>]
\* Math.max on integer pixels
IntMax(a, b) == IF a < b THEN b ELSE a

---------------------------------------------------------------------------
(* app.Constants (constants.js of the scene, not part of the sources) *)

LEVEL_USABLE_MAX_COLS == 10
LEVEL_USABLE_MIN_COLS == 7
LEVEL_USABLE_ROWS == 9
BLOCKLY_MIN_WIDTH == 260
EDGE_MIN_WIDTH == 48

(* app.Scene constants *)

VIEWPORT_TILE_MARGIN == Norm(3, 10)
VIEWPORT_MAX_TILES_X ==
  RAdd(Num(LEVEL_USABLE_MAX_COLS), RMul(VIEWPORT_TILE_MARGIN, Num(2)))
VIEWPORT_MIN_TILES_X ==
  RAdd(Num(LEVEL_USABLE_MIN_COLS), RMul(VIEWPORT_TILE_MARGIN, Norm(3, 2)))
VIEWPORT_MAX_TILES_Y ==
  RAdd(Num(LEVEL_USABLE_ROWS), RMul(VIEWPORT_TILE_MARGIN, Num(2)))
VIEWPORT_MIN_TILES_Y == RAdd(Num(9), RMul(VIEWPORT_TILE_MARGIN, Num(2)))
TILE_SIZE == 8
TILE_MARGIN == Norm(4, 10)
TILE_OUTER_SIZE == RAdd(Num(TILE_SIZE), TILE_MARGIN)

\* const min = 320
min == 320
\* the value of a field holding null
null == -1
\* the value of a number field never assigned
undefined == <<0, 0>>

---------------------------------------------------------------------------
(* Bounds of the environment *)

\* window.innerWidth, window.innerHeight and getToolbarWidth() in a run
Widths == {200, 1200, 1600}
Heights == {250, 900}
Toolbars == {540, 900}
\* arguments of the passes the properties quantify over
AnyWidths == Widths \cup {300, 320}
AnyHeights == Heights \cup {100, 320}
AnyToolbars == Toolbars \cup {0, 300}
\* tile counts of the constraint sets the aspect ratio is derived under
TileCounts == {Num(1), Norm(149, 20), Norm(48, 5), Norm(53, 5)}
\* pending SCENE_TOGGLE_DURATION timers
MaxTimers == 1

---------------------------------------------------------------------------
(* The scene object before the constructor's first layout pass *)

NewScene ==
  [cachedWindowHeight_ |-> null, cachedWindowWidth_ |-> null,
   portraitMode_ |-> FALSE, width_ |-> undefined, scaleRatio_ |-> undefined,
   visible_ |-> "undefined"]

NewDom ==
  [responsive |-> FALSE, show |-> FALSE, fontSize |-> undefined,
   styleWidth |-> undefined, elHidden |-> FALSE, underlayHidden |-> FALSE]

\* what a handler did, beside its writes to the scene and the DOM
NoTrace ==
  [computed |-> FALSE, aspectDerived |-> FALSE, toolbarQueried |-> FALSE,
   aspectRatio |-> undefined, derivedWidth |-> undefined,
   tileSize |-> undefined, toolbarRead |-> null, winWidth |-> null,
   winHeight |-> null]

---------------------------------------------------------------------------
(* calculateViewport_, statement by statement *)

\* Math.min written for Math.max
ClampDimension_min(x) == IF x < min THEN x ELSE min

\* Math.max(min, window.innerWidth), Math.max(min, window.innerHeight)
ClampDimension(x) == IntMax(min, x)

\* the height compared with the cached width, the width with the cached height
CacheHit_swapped(s, force, innerWidth, innerHeight) ==
  /\ ~force
  /\ innerHeight = s.cachedWindowWidth_
  /\ innerWidth = s.cachedWindowHeight_

\* !force && innerHeight === cachedWindowHeight_ && innerWidth === cachedWindowWidth_
CacheHit(s, force, innerWidth, innerHeight) ==
  /\ ~force
  /\ innerHeight = s.cachedWindowHeight_
  /\ innerWidth = s.cachedWindowWidth_

\* the upper clamp left out
AspectRatioOf_noUpper(innerWidth, innerHeight, minTilesX, maxTilesY, maxTilesX, minTilesY) ==
  MathMax(RDiv(RDiv(Num(innerWidth), Num(2)), Num(innerHeight)),
          RDiv(minTilesX, maxTilesY))

\* Math.min(Math.max(innerWidth / 2 / innerHeight, minX / maxY), maxX / minY)
AspectRatioOf(innerWidth, innerHeight, minTilesX, maxTilesY, maxTilesX, minTilesY) ==
  MathMin(MathMax(RDiv(RDiv(Num(innerWidth), Num(2)), Num(innerHeight)),
                  RDiv(minTilesX, maxTilesY)),
          RDiv(maxTilesX, minTilesY))

AspectRatio(innerWidth, innerHeight) ==
  AspectRatioOf(innerWidth, innerHeight, VIEWPORT_MIN_TILES_X,
                VIEWPORT_MAX_TILES_Y, VIEWPORT_MAX_TILES_X, VIEWPORT_MIN_TILES_Y)

\* var width = innerHeight * aspectRatio
DerivedWidth(innerHeight, aspectRatio) == RMul(Num(innerHeight), aspectRatio)

\* the smaller of the two candidate tile sizes
TileSize_min(innerHeight, width) ==
  MathMin(RDiv(Num(innerHeight), VIEWPORT_MAX_TILES_Y),
          RDiv(width, VIEWPORT_MAX_TILES_X))

\* Math.max(innerHeight / MAX_TILES_Y, width / MAX_TILES_X)
TileSize(innerHeight, width) ==
  MathMax(RDiv(Num(innerHeight), VIEWPORT_MAX_TILES_Y),
          RDiv(width, VIEWPORT_MAX_TILES_X))

\* the mode starts from the previous pass's
InitialPortraitMode_latched(s) == s.portraitMode_

\* var portraitMode = false
InitialPortraitMode(s) == FALSE

\* innerWidth - this.blockly_.getToolbarWidth()
WorkspaceWidth(innerWidth, toolbar) == innerWidth - toolbar

\* <= written for <
PortraitTest_le(workspaceWidth, width) ==
  RLe(RSub(Num(workspaceWidth), width), Num(BLOCKLY_MIN_WIDTH))

\* workspaceWidth - width < app.Constants.BLOCKLY_MIN_WIDTH
PortraitTest(workspaceWidth, width) ==
  RLt(RSub(Num(workspaceWidth), width), Num(BLOCKLY_MIN_WIDTH))

\* the other constant subtracted
PortraitWidth_minWidth(innerWidth) == Num(innerWidth - BLOCKLY_MIN_WIDTH)
\* the operands exchanged
PortraitWidth_swapped(innerWidth) == Num(EDGE_MIN_WIDTH - innerWidth)

\* width = innerWidth - app.Constants.EDGE_MIN_WIDTH
PortraitWidth(innerWidth) == Num(innerWidth - EDGE_MIN_WIDTH)

\* tileSize / (app.Scene.TILE_OUTER_SIZE * 10)
ScaleRatio(tileSize) == RDiv(tileSize, RMul(TILE_OUTER_SIZE, Num(10)))

\* F applied to the value of v, which is computed once
Let(v, F(_)) == CHOOSE r \in {F(x) : x \in {v}} : TRUE

\* the tile size taken from the width after the portrait override
Locals_late(innerWidth, innerHeight, toolbar) ==
  Let(AspectRatio(innerWidth, innerHeight), LAMBDA aspectRatio :
  Let(DerivedWidth(innerHeight, aspectRatio), LAMBDA width0 :
  Let(PortraitTest(WorkspaceWidth(innerWidth, toolbar), width0), LAMBDA test :
  Let(IF test THEN PortraitWidth(innerWidth) ELSE width0, LAMBDA width :
  Let(TileSize(innerHeight, width), LAMBDA tileSize :
  Let(ScaleRatio(tileSize), LAMBDA scaleRatio :
    [aspectRatio |-> aspectRatio, derivedWidth |-> width0,
     tileSize |-> tileSize, test |-> test,
     width |-> width,
     scaleRatio |-> scaleRatio,
     fontSize |-> RMul(scaleRatio, Num(10))]))))))

\* the locals of a pass that computes, from the clamped window and the
\* toolbar width
Locals(innerWidth, innerHeight, toolbar) ==
  Let(AspectRatio(innerWidth, innerHeight), LAMBDA aspectRatio :
  Let(DerivedWidth(innerHeight, aspectRatio), LAMBDA width0 :
  Let(TileSize(innerHeight, width0), LAMBDA tileSize :
  Let(PortraitTest(WorkspaceWidth(innerWidth, toolbar), width0), LAMBDA test :
  Let(ScaleRatio(tileSize), LAMBDA scaleRatio :
    [aspectRatio |-> aspectRatio, derivedWidth |-> width0,
     tileSize |-> tileSize, test |-> test,
     width |-> IF test THEN PortraitWidth(innerWidth) ELSE width0,
     scaleRatio |-> scaleRatio,
     fontSize |-> RMul(scaleRatio, Num(10))])))))

\* the whole pass: the scene and the DOM after it, and what it executed
calculateViewport_(s, d, force, winWidth, winHeight, toolbar) ==
  LET innerWidth == ClampDimension(winWidth)
      innerHeight == ClampDimension(winHeight)
  IN
  IF CacheHit(s, force, innerWidth, innerHeight)
  THEN [scene |-> s, dom |-> d, trace |-> NoTrace]
  ELSE
    Let(Locals(innerWidth, innerHeight, toolbar), LAMBDA l :
    Let(IF l.test THEN TRUE ELSE InitialPortraitMode(s), LAMBDA portraitMode :
    [scene |-> [s EXCEPT !.cachedWindowHeight_ = innerHeight,
                         !.cachedWindowWidth_ = innerWidth,
                         !.portraitMode_ = portraitMode,
                         !.width_ = l.width,
                         !.scaleRatio_ = l.scaleRatio],
     dom |-> [d EXCEPT !.responsive = portraitMode,
                       !.fontSize = l.fontSize,
                       !.styleWidth = l.width],
     trace |-> [computed |-> TRUE, aspectDerived |-> TRUE,
                toolbarQueried |-> TRUE, aspectRatio |-> l.aspectRatio,
                derivedWidth |-> l.derivedWidth, tileSize |-> l.tileSize,
                toolbarRead |-> toolbar, winWidth |-> winWidth,
                winHeight |-> winHeight]]))

---------------------------------------------------------------------------
(* portraitToggleScene, getWidth, toggleVisibility *)

\* the negation left out
ShowClass_same(visible) == visible

\* classList.toggle('show', !visible)
ShowClass(visible) == ~visible

portraitToggleScene(s, d, visible, userAction) ==
  [scene |-> s,
   dom |-> [d EXCEPT !.show = ShowClass(visible)],
   dismissTutorial |-> userAction]

\* visible_ === false: undefined taken as visible
NotVisible_strict(s) == s.visible_ = "false"

\* !this.visible_ : undefined and false are both falsy
NotVisible(s) == s.visible_ # "true"

\* the 'show' class read as well: nothing reserved while the play area is
\* toggled away
getWidth_show(s, d) ==
  [ret |-> IF NotVisible(s) \/ d.show THEN Num(0)
           ELSE IF s.portraitMode_ THEN Num(EDGE_MIN_WIDTH)
           ELSE s.width_,
   scene |-> s, dom |-> d]

getWidth(s, d) ==
  [ret |-> IF NotVisible(s) THEN Num(0)
           ELSE IF s.portraitMode_ THEN Num(EDGE_MIN_WIDTH)
           ELSE s.width_,
   scene |-> s, dom |-> d]

toggleVisibility(s, d, visible) ==
  [scene |-> [s EXCEPT !.visible_ = IF visible THEN "true" ELSE "false"],
   dom |-> [d EXCEPT !.elHidden = ~visible, !.underlayHidden = ~visible]]

---------------------------------------------------------------------------
(* onClickRun_ and the click on the play button *)

\* what a click handler did: the scene and the DOM after it, whether the
\* tutorial was dismissed, the calls of blockRunner_.execute() it made, the
\* timers it set and whether it stopped the propagation of the event
Handled(s, d, dismissTutorial, executed, timersSet, stopPropagation) ==
  [scene |-> s, dom |-> d, dismissTutorial |-> dismissTutorial,
   executed |-> executed, timersSet |-> timersSet,
   stopPropagation |-> stopPropagation]

\* execute() called at once in portrait mode too, no timer
onClickRun__eager(s, d) ==
  LET r == portraitToggleScene(s, d, TRUE, FALSE)
  IN  IF s.portraitMode_
      THEN Handled(r.scene, r.dom, r.dismissTutorial, 1, 0, TRUE)
      ELSE Handled(s, d, FALSE, 1, 0, TRUE)

\* onClickRun_(ev): portraitToggleScene(true) takes userAction = false
onClickRun_(s, d) ==
  LET r == portraitToggleScene(s, d, TRUE, FALSE)
  IN  IF s.portraitMode_
      THEN Handled(r.scene, r.dom, r.dismissTutorial, 0, 1, TRUE)
      ELSE Handled(s, d, FALSE, 1, 0, TRUE)

\* onClickScene_()
onClickScene_(s, d) ==
  LET r == portraitToggleScene(s, d, TRUE, TRUE)
  IN  Handled(r.scene, r.dom, r.dismissTutorial, 0, 0, FALSE)

\* onClickUnderlay_(e)
onClickUnderlay_(s, d) ==
  LET r == portraitToggleScene(s, d, FALSE, TRUE)
  IN  Handled(r.scene, r.dom, r.dismissTutorial, 0, 0, FALSE)

\* a click on the play button, an element inside the scene element: the
\* button's listener runs, then the event bubbles to the scene element's
\* listener unless its propagation was stopped
ClickPlayButton(s, d) ==
  LET r == onClickRun_(s, d)
      b == onClickScene_(r.scene, r.dom)
  IN  IF r.stopPropagation
      THEN [handled |-> r, handlers |-> <<"onClickRun_">>]
      ELSE [handled |-> [b EXCEPT !.executed = r.executed,
                                  !.timersSet = r.timersSet],
            handlers |-> <<"onClickRun_", "onClickScene_">>]

---------------------------------------------------------------------------
(* HexGeometryMap: the pick handlers *)

\* the functions that may be passed to handlePick
Handlers == {"f", "g"}

\* what a handler does with the event: nothing, or call the function that
\* handlePick returned for one of the handlers
none == "none"

\* handlers registered at a time, and setups made without a teardown
MaxHandlers == 3
MaxSubscriptions == 2

\* constructor(): pickHandlers = []; setup has not run, nothing is
\* subscribed; issued holds the handlers for which handlePick has returned
\* a function, delivered the handlers the latest pick event was passed to
NewHexGeometryMap ==
  [pickHandlers |-> <<>>, subscriptions |-> 0, setUp |-> FALSE,
   issued |-> {}, delivered |-> <<>>]

\* inputSystem.on('pick', callback, surface): one more callback subscribed;
\* the function it returns removes that callback
inputSystemOn(subscriptions) == subscriptions + 1
inputSystemOff(subscriptions) == subscriptions - 1

\* Array.prototype.indexOf (0-based): the first index of h, -1 if there is none
indexOf(list, h) ==
  IF \E i \in 1..Len(list) : list[i] = h
  THEN (CHOOSE i \in 1..Len(list) :
          list[i] = h /\ \A j \in 1..(i - 1) : list[j] # h) - 1
  ELSE -1

\* Array.prototype.splice(start, 1): a negative start counts from the end
splice(list, start) ==
  LET len == Len(list)
      from == IF start < 0
              THEN (IF len + start < 0 THEN 0 ELSE len + start)
              ELSE (IF start > len THEN len ELSE start)
      removed == IF from < len THEN 1 ELSE 0
  IN  [i \in 1..(len - removed) |-> IF i <= from THEN list[i] ELSE list[i + 1]]

\* this.pickHandlers.push(handler)
handlePick(list, handler) == Append(list, handler)

\* the function handlePick(handler) returns:
\* this.pickHandlers.splice(this.pickHandlers.indexOf(handler), 1)
unsubscribePick(list, handler) == splice(list, indexOf(list, handler))

\* this.pickHandlers.forEach(handler => handler(event)), from index k on:
\* the length is read once, an index that is no longer in the array is
\* passed over; the handler called may call a function handlePick returned
RECURSIVE forEach(_, _, _, _, _)
forEach(list, k, len, does, log) ==
  IF k >= len
  THEN [pickHandlers |-> list, log |-> log]
  ELSE IF k >= Len(list)
  THEN forEach(list, k + 1, len, does, log)
  ELSE LET handler == list[k + 1]
           after == IF does[handler] = none THEN list
                    ELSE unsubscribePick(list, does[handler])
       IN  forEach(after, k + 1, len, does, Append(log, handler))

\* the callback setup passes to inputSystem.on('pick', ...)
onPick(list, does) == forEach(list, 0, Len(list), does, <<>>)

\* what the handlers may do when the map is in state h
Behaviours(h) == [Handlers -> h.issued \cup {none}]

---------------------------------------------------------------------------
(* The level and the result of an execution *)

\* app.levels after levels.js has run: one level
levels == <<"level1">>

\* the objects setLevel may be given: the level of app.levels, and a level
\* that is not in the list
Levels == {"level1", "level0"}

\* app.levels[app.levels.length - 1]
LastLevel(list) == IF Len(list) = 0 THEN "undefined" ELSE list[Len(list)]

\* the results blockRunner may pass: complete or not, with the graphic it
\* chose, isFinalLevel not set
Results ==
  [levelComplete : BOOLEAN, graphic : {"undefined", "#result-level"},
   isFinalLevel : {FALSE}]

\* calls of onFinishExecution
MaxFinishes == 3

\* the constructor: level = null; no widget shown yet
NewPlay ==
  [level |-> "null", calls |-> 0, successShown |-> 0, failureShown |-> 0,
   result |-> [levelComplete |-> FALSE, graphic |-> "undefined",
               isFinalLevel |-> FALSE]]

\* the result marked final whatever the level
onFinishExecution_always(level, list, result) ==
  [result |-> [result EXCEPT
                 !.graphic = IF result.levelComplete THEN "#result-final"
                             ELSE "null",
                 !.isFinalLevel = TRUE],
   shows |-> IF result.levelComplete THEN <<"successResult">>
             ELSE <<"failureResult">>]

\* onFinishExecution(result): the result as passed to the widget, and the
\* widgets shown
onFinishExecution(level, list, result) ==
  LET marked == IF level = LastLevel(list)
                THEN [result EXCEPT
                        !.graphic = IF result.levelComplete
                                    THEN "#result-final" ELSE "null",
                        !.isFinalLevel = TRUE]
                ELSE result
  IN  [result |-> marked,
       shows |-> IF marked.levelComplete THEN <<"successResult">>
                 ELSE <<"failureResult">>]

---------------------------------------------------------------------------
(* The constructor *)

\* the call a step made: the handler; for a layout pass the force flag, the
\* toolbar width, whether it computed and the mode it started in
Call(op, force, computed, toolbar, wasPortrait) ==
  [op |-> op, force |-> force, computed |-> computed, toolbar |-> toolbar,
   wasPortrait |-> wasPortrait]

\* no constraint set under test: the scene runs with app.Scene's constants
NoProbe ==
  [stage |-> "none", innerWidth |-> 0, innerHeight |-> 0,
   minTilesX |-> undefined, maxTilesY |-> undefined,
   maxTilesX |-> undefined, minTilesY |-> undefined,
   aspectRatio |-> undefined]

\* the constructor without its call of calculateViewport_()
Init_noPass ==
  /\ scene = NewScene
  /\ dom = NewDom
  /\ pass = NoTrace
  /\ last = Call("constructor", FALSE, FALSE, null, FALSE)
  /\ sched = [listening |-> TRUE, rafPending |-> TRUE, timers |-> 0]
  /\ probe = NoProbe
  /\ hex = NewHexGeometryMap
  /\ play = NewPlay

\* app.Scene = function(el, game, blockly): the fields, the listeners, the
\* animation-frame request and the first (unforced) pass
Init ==
  /\ \E w \in Widths, h \in Heights, t \in Toolbars :
       \E r \in {calculateViewport_(NewScene, NewDom, FALSE, w, h, t)} :
           /\ scene = r.scene
           /\ dom = r.dom
           /\ pass = r.trace
           /\ last = Call("constructor", FALSE, r.trace.computed, t, FALSE)
  /\ sched = [listening |-> TRUE, rafPending |-> TRUE, timers |-> 0]
  /\ probe = NoProbe
  /\ hex = NewHexGeometryMap
  /\ play = NewPlay

---------------------------------------------------------------------------
(* Handlers and methods *)

\* the force argument bound into the resize listener: bind(this, true)
BoundForce == TRUE

\* calculateViewportHandler_ = this.calculateViewport_.bind(this, true)
calculateViewportHandler_(s, d, winWidth, winHeight, toolbar) ==
  calculateViewport_(s, d, BoundForce, winWidth, winHeight, toolbar)

\* one run of calculateViewport_ in a window of w x h with toolbar width t;
\* pass keeps the locals of the latest pass that computed
LayoutPass(op, force, w, h, t) ==
  \E r \in {calculateViewport_(scene, dom, force, w, h, t)} :
      /\ scene' = r.scene
      /\ dom' = r.dom
      /\ pass' = IF r.trace.computed THEN r.trace ELSE pass
      /\ last' = Call(op, force, r.trace.computed, t, scene.portraitMode_)

\* calculateViewport_(force) called as a method
CalculateViewport ==
  /\ \E force \in BOOLEAN, w \in Widths, h \in Heights, t \in Toolbars :
       LayoutPass("calculateViewport_", force, w, h, t)
  /\ UNCHANGED <<sched, probe, hex, play>>

\* window 'resize' -> calculateViewportHandler_ = calculateViewport_.bind(this, true)
OnResize ==
  /\ sched.listening
  /\ \E w \in Widths, h \in Heights, t \in Toolbars :
       LayoutPass("resize", BoundForce, w, h, t)
  /\ UNCHANGED <<sched, probe, hex, play>>

\* requestAnimationFrame(() => this.calculateViewport_(true))
OnAnimationFrame ==
  /\ sched.rafPending
  /\ sched' = [sched EXCEPT !.rafPending = FALSE]
  /\ UNCHANGED <<probe, hex, play>>
  /\ \E w \in Widths, h \in Heights, t \in Toolbars :
       LayoutPass("animationFrame", TRUE, w, h, t)

\* one run of portraitToggleScene
Toggle(visible, userAction) ==
  LET r == portraitToggleScene(scene, dom, visible, userAction)
  IN  /\ scene' = r.scene
      /\ dom' = r.dom
      /\ last' = Call("portraitToggleScene", FALSE, FALSE, null, FALSE)

\* portraitToggleScene(visible, userAction) called as a method
PortraitToggleScene ==
  /\ \E visible \in BOOLEAN, userAction \in BOOLEAN :
       Toggle(visible, userAction)
  /\ UNCHANGED <<sched, pass, probe, hex, play>>

\* onClickScene_: portraitToggleScene(true, true)
OnClickScene ==
  /\ sched.listening
  /\ LET r == onClickScene_(scene, dom)
     IN  /\ scene' = r.scene
         /\ dom' = r.dom
  /\ last' = Call("portraitToggleScene", FALSE, FALSE, null, FALSE)
  /\ UNCHANGED <<sched, pass, probe, hex, play>>

\* onClickUnderlay_: portraitToggleScene(false, true)
OnClickUnderlay ==
  /\ sched.listening
  /\ LET r == onClickUnderlay_(scene, dom)
     IN  /\ scene' = r.scene
         /\ dom' = r.dom
  /\ last' = Call("portraitToggleScene", FALSE, FALSE, null, FALSE)
  /\ UNCHANGED <<sched, pass, probe, hex, play>>

\* a click on the play button: in portrait mode onClickRun_ shows the scene
\* and sets the SCENE_TOGGLE_DURATION timer, else it calls execute() at once
OnClickRun ==
  /\ sched.listening
  /\ LET r == ClickPlayButton(scene, dom).handled
     IN  /\ sched.timers + r.timersSet <= MaxTimers
         /\ scene' = r.scene
         /\ dom' = r.dom
         /\ sched' = [sched EXCEPT !.timers = @ + r.timersSet]
         /\ last' = IF r.executed > 0
                    THEN Call("execute", FALSE, FALSE, null, FALSE)
                    ELSE Call("portraitToggleScene", FALSE, FALSE, null,
                              FALSE)
  /\ UNCHANGED <<pass, probe, hex, play>>

\* the timer set by onClickRun_ fires: blockRunner_.execute()
OnTimer ==
  /\ sched.timers > 0
  /\ sched' = [sched EXCEPT !.timers = @ - 1]
  /\ last' = Call("timeout", FALSE, FALSE, null, FALSE)
  /\ UNCHANGED <<scene, dom, pass, probe, hex, play>>

GetWidth ==
  /\ LET r == getWidth(scene, dom)
     IN  /\ scene' = r.scene
         /\ dom' = r.dom
  /\ last' = Call("getWidth", FALSE, FALSE, null, FALSE)
  /\ UNCHANGED <<sched, pass, probe, hex, play>>

ToggleVisibility ==
  /\ \E visible \in BOOLEAN :
       LET r == toggleVisibility(scene, dom, visible)
       IN  /\ scene' = r.scene
           /\ dom' = r.dom
  /\ last' = Call("toggleVisibility", FALSE, FALSE, null, FALSE)
  /\ UNCHANGED <<sched, pass, probe, hex, play>>

\* dispose: the four listeners are removed
Dispose ==
  /\ sched.listening
  /\ sched' = [sched EXCEPT !.listening = FALSE]
  /\ last' = Call("dispose", FALSE, FALSE, null, FALSE)
  /\ UNCHANGED <<scene, dom, pass, probe, hex, play>>

Next ==
  \/ CalculateViewport
  \/ OnResize
  \/ OnAnimationFrame
  \/ PortraitToggleScene
  \/ OnClickScene
  \/ OnClickUnderlay
  \/ OnClickRun
  \/ OnTimer
  \/ GetWidth
  \/ ToggleVisibility
  \/ Dispose

Spec == Init /\ [][Next]_vars

\* The browser runs a requested animation-frame callback before a later
\* repaint and lets a timer that was set fire; the scene never cancels the
\* request and never clears a timer.

\* the pending animation-frame request is served: in a behaviour of Next the
\* steps that clear it are the steps of OnAnimationFrame, which is enabled
\* as long as the request is pending
AnimationFrameServed ==
  /\ sched.rafPending
  /\ sched' = [sched EXCEPT !.rafPending = FALSE]

\* a pending timer fires: the steps of OnTimer
TimerServed ==
  /\ sched.timers > 0
  /\ sched' = [sched EXCEPT !.timers = @ - 1]

\* the scene under these two scheduling guarantees; its reachable states
\* are those of Spec
FairSpec ==
  /\ Init
  /\ [][Next]_vars
  /\ WF_sched(AnimationFrameServed)
  /\ WF_sched(TimerServed)

---------------------------------------------------------------------------
(* The aspect ratio as a function of the constraint set *)

InitAspect ==
  /\ scene = NewScene
  /\ dom = NewDom
  /\ sched = [listening |-> FALSE, rafPending |-> FALSE, timers |-> 0]
  /\ pass = NoTrace
  /\ last = Call("none", FALSE, FALSE, null, FALSE)
  /\ hex = NewHexGeometryMap
  /\ play = NewPlay
  /\ \E w \in AnyWidths, h \in AnyHeights :
     \E minX \in TileCounts, maxY \in TileCounts, maxX \in TileCounts,
        minY \in TileCounts :
       probe = [stage |-> "input", innerWidth |-> ClampDimension(w),
                innerHeight |-> ClampDimension(h),
                minTilesX |-> minX, maxTilesY |-> maxY,
                maxTilesX |-> maxX, minTilesY |-> minY,
                aspectRatio |-> undefined]

DeriveAspect ==
  /\ probe.stage = "input"
  /\ probe' = [probe EXCEPT
       !.stage = "derived",
       !.aspectRatio = AspectRatioOf(probe.innerWidth, probe.innerHeight,
                                     probe.minTilesX, probe.maxTilesY,
                                     probe.maxTilesX, probe.minTilesY)]
  /\ UNCHANGED <<scene, dom, sched, pass, last, hex, play>>

NextAspect == DeriveAspect

SpecAspect == InitAspect /\ [][NextAspect]_vars

---------------------------------------------------------------------------
(* The pick handlers of a HexGeometryMap; the scene is left aside *)

InitHex ==
  /\ scene = NewScene
  /\ dom = NewDom
  /\ sched = [listening |-> FALSE, rafPending |-> FALSE, timers |-> 0]
  /\ pass = NoTrace
  /\ last = Call("none", FALSE, FALSE, null, FALSE)
  /\ probe = NoProbe
  /\ hex = NewHexGeometryMap
  /\ play = NewPlay

\* setup(game): the handler list is replaced by an empty one and one more
\* callback is subscribed to 'pick'; this.unsubscribe is the function that
\* removes the callback subscribed last
Setup ==
  /\ hex.subscriptions < MaxSubscriptions
  /\ hex' = [hex EXCEPT !.pickHandlers = <<>>,
                        !.subscriptions = inputSystemOn(@),
                        !.setUp = TRUE]
  /\ UNCHANGED <<scene, dom, sched, pass, last, probe, play>>

\* teardown(game), after a setup: this.unsubscribe()
Teardown ==
  /\ hex.setUp
  /\ hex' = [hex EXCEPT !.subscriptions = inputSystemOff(@),
                        !.setUp = FALSE]
  /\ UNCHANGED <<scene, dom, sched, pass, last, probe, play>>

\* handlePick(handler)
HandlePick ==
  /\ Len(hex.pickHandlers) < MaxHandlers
  /\ \E handler \in Handlers :
       hex' = [hex EXCEPT !.pickHandlers = handlePick(@, handler),
                          !.issued = @ \cup {handler}]
  /\ UNCHANGED <<scene, dom, sched, pass, last, probe, play>>

\* a function that handlePick returned is called
CallUnsubscribe ==
  /\ \E handler \in hex.issued :
       hex' = [hex EXCEPT !.pickHandlers = unsubscribePick(@, handler)]
  /\ UNCHANGED <<scene, dom, sched, pass, last, probe, play>>

\* the input system emits 'pick' for the surface of a subscribed callback
Pick ==
  /\ hex.subscriptions > 0
  /\ \E does \in Behaviours(hex) :
       LET r == onPick(hex.pickHandlers, does)
       IN  hex' = [hex EXCEPT !.pickHandlers = r.pickHandlers,
                              !.delivered = r.log]
  /\ UNCHANGED <<scene, dom, sched, pass, last, probe, play>>

NextHex ==
  \/ Setup
  \/ Teardown
  \/ HandlePick
  \/ CallUnsubscribe
  \/ Pick

SpecHex == InitHex /\ [][NextHex]_vars

---------------------------------------------------------------------------
(* The level of the scene and onFinishExecution; the layout is left aside *)

InitLevel ==
  /\ scene = NewScene
  /\ dom = NewDom
  /\ sched = [listening |-> FALSE, rafPending |-> FALSE, timers |-> 0]
  /\ pass = NoTrace
  /\ last = Call("none", FALSE, FALSE, null, FALSE)
  /\ probe = NoProbe
  /\ hex = NewHexGeometryMap
  /\ play = NewPlay

\* how often widget is in shows
Shown(shows, widget) ==
  Cardinality({i \in 1..Len(shows) : shows[i] = widget})

\* setLevel(level)
SetLevel ==
  /\ \E level \in Levels : play' = [play EXCEPT !.level = level]
  /\ UNCHANGED <<scene, dom, sched, pass, last, probe, hex>>

\* reset()
Reset ==
  /\ play' = [play EXCEPT !.level = "null"]
  /\ UNCHANGED <<scene, dom, sched, pass, last, probe, hex>>

\* onFinishExecution(result), called by the block runner
OnFinishExecution ==
  /\ play.calls < MaxFinishes
  /\ \E result \in Results :
       LET r == onFinishExecution(play.level, levels, result)
       IN  play' = [play EXCEPT
                      !.calls = @ + 1,
                      !.successShown = @ + Shown(r.shows, "successResult"),
                      !.failureShown = @ + Shown(r.shows, "failureResult"),
                      !.result = r.result]
  /\ UNCHANGED <<scene, dom, sched, pass, last, probe, hex>>

NextLevel ==
  \/ SetLevel
  \/ Reset
  \/ OnFinishExecution

SpecLevel == InitLevel /\ [][NextLevel]_vars

---------------------------------------------------------------------------
(* Properties *)

\* max(320, dimension)
Floor320(x) == IF x < 320 THEN 320 ELSE x

RGe(a, b) == RLe(b, a)
RPos(a) == RLt(Num(0), a)

\* the bounds of the aspect ratio under a constraint set
LowerRatio(minTilesX, maxTilesY) == RDiv(minTilesX, maxTilesY)
UpperRatio(maxTilesX, minTilesY) == RDiv(maxTilesX, minTilesY)

\* a fresh computation from clamped window dimensions cw x ch and a
\* side-panel width t, as the specification states it
FreshLayout(cw, ch, t) ==
  Let(MathMin(MathMax(RDiv(Num(cw), Num(2 * ch)),
                      LowerRatio(VIEWPORT_MIN_TILES_X, VIEWPORT_MAX_TILES_Y)),
              UpperRatio(VIEWPORT_MAX_TILES_X, VIEWPORT_MIN_TILES_Y)),
      LAMBDA ar :
  Let(RMul(Num(ch), ar), LAMBDA w :
  Let(RLt(RSub(Num(cw - t), w), Num(BLOCKLY_MIN_WIDTH)), LAMBDA portrait :
    [width |-> IF portrait THEN Num(cw - EDGE_MIN_WIDTH) ELSE w,
     scaleRatio |-> RDiv(MathMax(RDiv(Num(ch), VIEWPORT_MAX_TILES_Y),
                                 RDiv(w, VIEWPORT_MAX_TILES_X)),
                         RMul(TILE_OUTER_SIZE, Num(10))),
     portraitMode |-> portrait])))

\* width, scaleRatio and portraitMode of a scene
LayoutResult(s) ==
  [width |-> s.width_, scaleRatio |-> s.scaleRatio_,
   portraitMode |-> s.portraitMode_]

CacheKeys(s) == <<s.cachedWindowWidth_, s.cachedWindowHeight_>>

\* of the latest pass that computed: the clamped window and
\* (clampedWindowWidth - sidePanelWidth) - clampedHeight * aspectRatio
PassWidth == Floor320(pass.winWidth)
PassHeight == Floor320(pass.winHeight)
PassDerivedWidth == RMul(Num(PassHeight), pass.aspectRatio)
PassSpare == RSub(Num(PassWidth - pass.toolbarRead), PassDerivedWidth)

(* C1. Cache short-circuit: in every reachable state, an unforced          *)
(* calculateViewport_ whose clamped window width and height equal the      *)
(* cached values leaves width, scaleRatio and portraitMode unchanged and   *)
(* executes neither the aspect-ratio derivation nor the toolbar-width      *)
(* query, whatever the toolbar width is.                                   *)
C1_CacheShortCircuit ==
  \A w \in AnyWidths, h \in AnyHeights, t \in AnyToolbars :
    (Floor320(w) = scene.cachedWindowWidth_
       /\ Floor320(h) = scene.cachedWindowHeight_) =>
      \A r \in {calculateViewport_(scene, dom, FALSE, w, h, t)} :
        /\ LayoutResult(r.scene) = LayoutResult(scene)
        /\ ~r.trace.computed
        /\ ~r.trace.aspectDerived
        /\ ~r.trace.toolbarQueried

\* an unforced pass was short-circuited although the toolbar width differs
\* from the one the latest computing pass read
C1_Witness ==
  /\ last.op = "calculateViewport_"
  /\ ~last.force
  /\ ~last.computed
  /\ last.toolbar # pass.toolbarRead
  /\ scene.cachedWindowWidth_ # scene.cachedWindowHeight_

(* C2. Portrait trigger: after every pass that computes, if                *)
(* (clampedWindowWidth - sidePanelWidth) - clampedHeight * aspectRatio <   *)
(* BLOCKLY_MIN_WIDTH then portraitMode is true and width is exactly        *)
(* clampedWindowWidth - EDGE_MIN_WIDTH.                                    *)
C2_PortraitTrigger ==
  RLt(PassSpare, Num(BLOCKLY_MIN_WIDTH)) =>
    /\ scene.portraitMode_
    /\ scene.width_ = Num(PassWidth - EDGE_MIN_WIDTH)

C2_Witness ==
  /\ last.computed
  /\ RLt(PassSpare, Num(BLOCKLY_MIN_WIDTH))
  /\ PassWidth > min

(* C3. Landscape stability: after every pass that computes, if             *)
(* (clampedWindowWidth - sidePanelWidth) - clampedHeight * aspectRatio >=  *)
(* BLOCKLY_MIN_WIDTH then portraitMode is false and width is               *)
(* clampedHeight * aspectRatio.                                            *)
C3_LandscapeStability ==
  RGe(PassSpare, Num(BLOCKLY_MIN_WIDTH)) =>
    /\ ~scene.portraitMode_
    /\ scene.width_ = PassDerivedWidth

\* a computing pass with the spare width exactly at the threshold
C3_Witness ==
  /\ last.computed
  /\ PassSpare = Num(BLOCKLY_MIN_WIDTH)

(* C4. Positivity: in every reachable state width > 0 and scaleRatio > 0,  *)
(* in landscape mode and in portrait mode alike.                           *)
C4_Positivity == RPos(scene.width_) /\ RPos(scene.scaleRatio_)

\* portrait mode in a window narrower than the 320 floor
C4_Witness ==
  /\ last.computed
  /\ scene.portraitMode_
  /\ pass.winWidth < min
  /\ scene.width_ = Num(min - EDGE_MIN_WIDTH)

\* prior states of a second engine: before its first pass, and latched in
\* portrait mode with other cache keys
PriorScenes ==
  {NewScene,
   [NewScene EXCEPT !.portraitMode_ = TRUE, !.width_ = Num(1),
                    !.scaleRatio_ = Num(1), !.cachedWindowWidth_ = 4000,
                    !.cachedWindowHeight_ = 4000]}

(* C5. The mode is not latched and the last pass wins: in every reachable  *)
(* state width, scaleRatio and portraitMode are what a fresh computation   *)
(* yields from the cache keys and the toolbar width read by the latest     *)
(* pass that computed, and that pass run from any other prior state ends   *)
(* in the same LayoutResult and cache keys.                                *)
C5_LastPassWins ==
  /\ LayoutResult(scene) =
       FreshLayout(scene.cachedWindowWidth_, scene.cachedWindowHeight_,
                   pass.toolbarRead)
  /\ \A prior \in PriorScenes, force \in BOOLEAN :
       \A r \in {calculateViewport_(prior, NewDom, force, pass.winWidth,
                                    pass.winHeight, pass.toolbarRead)} :
         r.trace.computed =>
           /\ LayoutResult(r.scene) = LayoutResult(scene)
           /\ CacheKeys(r.scene) = CacheKeys(scene)

\* a computing pass that started in portrait mode and ended in landscape
C5_Witness ==
  /\ last.computed
  /\ last.wasPortrait
  /\ ~scene.portraitMode_

(* C6. Monotonic floor: in every reachable state, a pass in a window of    *)
(* w x h ends exactly as the same pass (same force flag, same toolbar      *)
(* width) in a window of max(320, w) x max(320, h): same scene fields,     *)
(* cache keys included, same DOM writes, same cache-hit decision.          *)
C6_MonotonicFloor ==
  \A w \in Widths, h \in Heights :
    (w < 320 \/ h < 320) =>
      \A force \in BOOLEAN, t \in Toolbars :
        \A r \in {calculateViewport_(scene, dom, force, w, h, t)},
           q \in {calculateViewport_(scene, dom, force, Floor320(w),
                                     Floor320(h), t)} :
          /\ r.scene = q.scene
          /\ r.dom = q.dom
          /\ r.trace.computed = q.trace.computed

\* a pass in a window below the floor in both dimensions has computed
C6_Witness ==
  /\ last.computed
  /\ pass.winWidth < 320
  /\ pass.winHeight < 320
  /\ CacheKeys(scene) = <<320, 320>>

C8_GetWidth ==
  \A r \in {getWidth(scene, dom)} :
    /\ scene.visible_ \in {"undefined", "false"} => r.ret = Num(0)
    /\ (scene.visible_ = "true" /\ scene.portraitMode_) =>
         r.ret = Num(EDGE_MIN_WIDTH)
    /\ (scene.visible_ = "true" /\ ~scene.portraitMode_) =>
         r.ret = scene.width_
    /\ r.scene = scene
    /\ r.dom = dom

\* getWidth has run before toggleVisibility was ever called
C8_Witness ==
  /\ last.op = "getWidth"
  /\ scene.visible_ = "undefined"
  /\ scene.portraitMode_

(* C9. Portrait toggle frame condition: in every reachable state and for   *)
(* every argument pair, portraitToggleScene(visible, userAction) leaves    *)
(* every field of the scene (width, scaleRatio, portraitMode, cache keys,  *)
(* visible_) unchanged; it sets the 'show' class to !visible, writes       *)
(* nothing else to the DOM, and dismisses the tutorial iff userAction.     *)
C9_ToggleFrame ==
  \A visible \in BOOLEAN, userAction \in BOOLEAN :
    \A r \in {portraitToggleScene(scene, dom, visible, userAction)} :
      /\ r.scene = scene
      /\ r.dom = [dom EXCEPT !.show = ~visible]
      /\ r.dismissTutorial = userAction

\* the toggle has run in landscape mode and set the 'show' class
C9_Witness ==
  /\ last.op = "portraitToggleScene"
  /\ ~scene.portraitMode_
  /\ dom.show

(* C10 as stated. After every pass that computes, the tile size shows at   *)
(* least the maximum tile count in both axes:                              *)
(* clampedHeight / tileSize >= maxTilesY and width / tileSize >= maxTilesX.*)
C10_TileCountAsStated ==
  /\ RGe(RDiv(Num(PassHeight), pass.tileSize), VIEWPORT_MAX_TILES_Y)
  /\ RGe(RDiv(PassDerivedWidth, pass.tileSize), VIEWPORT_MAX_TILES_X)

(* C10, amended. After every pass that computes, tileSize =                *)
(* max(clampedHeight / maxTilesY, width / maxTilesX) with width the        *)
(* aspect-derived width, and with that tile size the viewport shows at     *)
(* most the maximum tile count in both axes:                               *)
(* clampedHeight / tileSize <= maxTilesY and width / tileSize <= maxTilesX.*)
C10_TileCount ==
  /\ pass.tileSize = MathMax(RDiv(Num(PassHeight), VIEWPORT_MAX_TILES_Y),
                             RDiv(PassDerivedWidth, VIEWPORT_MAX_TILES_X))
  /\ RLe(RDiv(Num(PassHeight), pass.tileSize), VIEWPORT_MAX_TILES_Y)
  /\ RLe(RDiv(PassDerivedWidth, pass.tileSize), VIEWPORT_MAX_TILES_X)

\* a computing pass whose two candidate tile sizes differ
C10_Witness ==
  /\ last.computed
  /\ RLt(RDiv(PassDerivedWidth, pass.tileSize), VIEWPORT_MAX_TILES_X)
  /\ RDiv(Num(PassHeight), pass.tileSize) = VIEWPORT_MAX_TILES_Y

\* the value getWidth returns after portraitToggleScene(visible, userAction)
WidthAfterToggle(visible, userAction) ==
  LET r == portraitToggleScene(scene, dom, visible, userAction)
  IN  getWidth(r.scene, r.dom).ret

(* C11 as stated. With the viewport visible and portraitMode true, the     *)
(* value getWidth returns after a toggle to hidden (play area toggled      *)
(* away) differs from the value it returns after a toggle to shown.        *)
C11_ToggleObservableAsStated ==
  (scene.visible_ = "true" /\ scene.portraitMode_) =>
    \A userAction \in BOOLEAN :
      WidthAfterToggle(FALSE, userAction) # WidthAfterToggle(TRUE, userAction)

(* C11, amended. With the viewport visible and portraitMode true, the      *)
(* explicit toggle requests flip the 'show' class only: getWidth returns   *)
(* EDGE_MIN_WIDTH before the toggle, after a toggle to hidden and after a  *)
(* toggle to shown alike.                                                  *)
C11_ToggleObservable ==
  (scene.visible_ = "true" /\ scene.portraitMode_) =>
    \A visible \in BOOLEAN, userAction \in BOOLEAN :
      /\ portraitToggleScene(scene, dom, visible, userAction).dom.show
           = ~visible
      /\ WidthAfterToggle(visible, userAction) = getWidth(scene, dom).ret
      /\ WidthAfterToggle(visible, userAction) = Num(EDGE_MIN_WIDTH)

\* visible, in portrait mode, toggled to hidden, and getWidth has been read
C11_Witness ==
  /\ last.op = "getWidth"
  /\ scene.visible_ = "true"
  /\ scene.portraitMode_
  /\ dom.show

(* C12. Startup layout: the constructor runs a computing pass (its unforced *)
(* call cannot hit the null cache keys) and requests one forced pass for   *)
(* the next animation frame; in every state after construction the cache   *)
(* keys are non-null and width, scaleRatio and portraitMode hold the       *)
(* result of a pass that computed; and the forced pass eventually runs.    *)
C12_StartupLayout ==
  /\ [](/\ scene.cachedWindowWidth_ # null
        /\ scene.cachedWindowHeight_ # null
        /\ pass.computed
        /\ scene.width_ # undefined
        /\ scene.scaleRatio_ # undefined
        /\ scene.portraitMode_ = dom.responsive
        /\ last.op = "constructor" =>
             (last.computed /\ ~last.force /\ sched.rafPending)
        /\ last.op = "animationFrame" =>
             (last.computed /\ last.force /\ ~sched.rafPending))
  /\ <>(~sched.rafPending)

\* the animation-frame pass has run, in another window than the constructor's
C12_Witness ==
  /\ last.op = "animationFrame"
  /\ ~sched.rafPending
  /\ scene.cachedWindowWidth_ = 1600

(* C13. Spurious resize notifications are ignored: while the listener is   *)
(* registered, a resize notification delivered through                     *)
(* calculateViewportHandler_ in a window whose clamped width and height    *)
(* equal the cached values performs no recomputation and leaves width,     *)
(* scaleRatio and portraitMode unchanged, whatever the toolbar width is.   *)
C13_SpuriousResizeIgnored ==
  sched.listening =>
    \A w \in Widths, h \in Heights, t \in Toolbars :
      (Floor320(w) = scene.cachedWindowWidth_
         /\ Floor320(h) = scene.cachedWindowHeight_) =>
        \A r \in {calculateViewportHandler_(scene, dom, w, h, t)} :
          /\ ~r.trace.computed
          /\ ~r.trace.toolbarQueried
          /\ LayoutResult(r.scene) = LayoutResult(scene)

(* C14. Run click starts exactly one execution, after the reveal: a click  *)
(* on the play button runs onClickRun_ only (never the scene click         *)
(* handler) and makes exactly one of: one call of execute within the       *)
(* handler, when portraitMode is false; one timer set, no call of execute, *)
(* the scene toggled to shown and the tutorial not dismissed, when         *)
(* portraitMode is true. execute is called in no other step than such a    *)
(* click and the firing of a timer, every firing calls it once and uses up *)
(* one timer, and a timer that is set eventually fires.                    *)
C14_RunClick ==
  /\ [](sched.listening =>
         \A c \in {ClickPlayButton(scene, dom)} :
           /\ c.handlers = <<"onClickRun_">>
           /\ c.handled.stopPropagation
           /\ c.handled.executed + c.handled.timersSet = 1
           /\ c.handled.scene = scene
           /\ ~scene.portraitMode_ =>
                (c.handled.executed = 1 /\ c.handled.dom = dom)
           /\ scene.portraitMode_ =>
                (/\ c.handled.executed = 0
                 /\ c.handled.dom = [dom EXCEPT !.show = FALSE]
                 /\ ~c.handled.dismissTutorial))
  /\ [][/\ last'.op = "execute" =>
            (sched.listening /\ ~scene.portraitMode_ /\ sched' = sched)
        /\ sched'.timers > sched.timers =>
            (/\ sched.listening
             /\ scene.portraitMode_
             /\ sched'.timers = sched.timers + 1
             /\ last'.op \notin {"execute", "timeout"}
             /\ ~dom'.show)
        /\ last'.op = "timeout" <=> sched'.timers = sched.timers - 1
        /\ sched'.timers >= sched.timers - 1]_vars
  /\ (sched.timers > 0) ~> (last.op = "timeout")

\* the timer of a click in portrait mode has fired
C14_Witness ==
  /\ last.op = "timeout"
  /\ scene.portraitMode_
  /\ ~dom.show
  /\ sched.timers = 0

(* C15. Delayed execution sees the state the click set up: whenever the    *)
(* execute scheduled by a portrait-mode run click fires, the 'show' class  *)
(* is still cleared and portraitMode is still true, whatever clicks, run   *)
(* clicks and layout passes came between the click and the timer.          *)
C15_DelayedExecutionState ==
  last.op = "timeout" => (~dom.show /\ scene.portraitMode_)

(* C16. dispose quiesces the scene: in a step taken after dispose() has    *)
(* returned no callback of the scene runs: no resize or animation-frame    *)
(* pass changes width, scaleRatio, portraitMode or the cache keys, and     *)
(* blockRunner_.execute is not called, by a click or by a timer.           *)
C16_DisposeQuiesces ==
  [][~sched.listening =>
       /\ last'.op \in {"resize", "animationFrame"} =>
            (/\ LayoutResult(scene') = LayoutResult(scene)
             /\ CacheKeys(scene') = CacheKeys(scene))
       /\ last'.op \notin {"execute", "timeout"}]_vars

\* list without the first registration of h; list itself if h is not in it
RemoveFirst(list, h) ==
  IF \E i \in 1..Len(list) : list[i] = h
  THEN LET at == CHOOSE i \in 1..Len(list) :
                   list[i] = h /\ \A j \in 1..(i - 1) : list[j] # h
       IN  [i \in 1..(Len(list) - 1) |->
              IF i < at THEN list[i] ELSE list[i + 1]]
  ELSE list

\* how often h is in list
Occurrences(list, h) == Cardinality({i \in 1..Len(list) : list[i] = h})

\* sub is list with some entries left out
RECURSIVE IsSubsequence(_, _)
IsSubsequence(sub, list) ==
  IF sub = <<>> THEN TRUE
  ELSE IF list = <<>> THEN FALSE
  ELSE IF Head(sub) = Head(list)
       THEN IsSubsequence(Tail(sub), Tail(list))
       ELSE IsSubsequence(sub, Tail(list))

(* C17. Pick unsubscribe removes only its own handler: in every reachable  *)
(* state, calling a function that handlePick(h) returned removes the       *)
(* registration of h when there is one and nothing else, and leaves the    *)
(* handler list unchanged when there is none (a second call, or a call     *)
(* after setup() has replaced the list).                                   *)
C17_UnsubscribeOwnOnly ==
  \A h \in hex.issued :
    unsubscribePick(hex.pickHandlers, h) = RemoveFirst(hex.pickHandlers, h)

(* C18. Pick forwarding is exactly-once: in every reachable state with a   *)
(* subscribed callback and whatever the handlers do during the dispatch,   *)
(* a pick event is passed to registered handlers only, in registration     *)
(* order and at most once for each registration, and every handler that    *)
(* is registered at the dispatch and still registered after it has         *)
(* received the event.                                                     *)
C18_PickForwarding ==
  hex.subscriptions > 0 =>
    \A does \in Behaviours(hex) :
      \A r \in {onPick(hex.pickHandlers, does)} :
        /\ IsSubsequence(r.log, hex.pickHandlers)
        /\ \A h \in Handlers :
             Occurrences(r.pickHandlers, h) <= Occurrences(r.log, h)

\* the result onFinishExecution marks as final
MarkedFinal(result) ==
  [result EXCEPT !.isFinalLevel = TRUE,
                 !.graphic = IF result.levelComplete THEN "#result-final"
                             ELSE "null"]

(* C20. Execution result routing: in every reachable state and for every   *)
(* result, onFinishExecution shows exactly one widget, the success widget  *)
(* iff result.levelComplete, else the failure widget; the result it shows  *)
(* is marked final (isFinalLevel = true, graphic '#result-final' when      *)
(* complete, null otherwise) iff the level is the last entry of            *)
(* app.levels, and is the result as passed otherwise; with level = null,   *)
(* as after reset(), it is not marked final. Every call so far has shown   *)
(* one widget.                                                             *)
C20_ResultRouting ==
  /\ \A result \in Results :
       \A r \in {onFinishExecution(play.level, levels, result)} :
         /\ Len(r.shows) = 1
         /\ (r.shows = <<"successResult">>) <=> result.levelComplete
         /\ (r.shows = <<"failureResult">>) <=> ~result.levelComplete
         /\ r.result.isFinalLevel <=> (play.level = levels[Len(levels)])
         /\ r.result = IF play.level = levels[Len(levels)]
                       THEN MarkedFinal(result) ELSE result
         /\ play.level = "null" => r.result = result
  /\ play.successShown + play.failureShown = play.calls
  /\ play.result.isFinalLevel =>
       play.result.graphic =
         IF play.result.levelComplete THEN "#result-final" ELSE "null"

\* a result marked final has been shown, then after reset() one that is not
C20_Witness ==
  /\ play.level = "null"
  /\ play.calls = 2
  /\ play.successShown = 1
  /\ play.failureShown = 1
  /\ ~play.result.isFinalLevel
  /\ play.result.graphic = "#result-level"

\* the latest computing pass run again, forced, with toolbar width t
PassAgain(t) ==
  calculateViewport_(scene, dom, TRUE, pass.winWidth, pass.winHeight, t)

(* C19. Scale ignores the side panel: in every reachable state the stored  *)
(* scaleRatio is max(clampedHeight / maxTilesY,                            *)
(* clampedHeight * aspectRatio / maxTilesX) / (tileOuterSize * 10), with   *)
(* the aspect ratio that of the clamped window, and the latest computing   *)
(* pass run again in the same window with any side-panel width stores the  *)
(* same scaleRatio, whether it ends in portrait mode or in landscape.      *)
C19_ScaleIgnoresSidePanel ==
  /\ pass.aspectRatio = AspectRatio(PassWidth, PassHeight)
  /\ scene.scaleRatio_ =
       RDiv(MathMax(RDiv(Num(PassHeight), VIEWPORT_MAX_TILES_Y),
                    RDiv(RMul(Num(PassHeight), pass.aspectRatio),
                         VIEWPORT_MAX_TILES_X)),
            RMul(TILE_OUTER_SIZE, Num(10)))
  /\ \A t \in Toolbars :
       \A r \in {PassAgain(t)} :
         /\ r.trace.computed
         /\ r.scene.scaleRatio_ = scene.scaleRatio_

\* a pass has ended in portrait mode with the overridden width, in a window
\* where another side-panel width ends in landscape with another width
C19_Witness ==
  /\ last.computed
  /\ scene.portraitMode_
  /\ scene.width_ = Num(PassWidth - EDGE_MIN_WIDTH)
  /\ \E t \in Toolbars :
       \E r \in {PassAgain(t)} :
         /\ ~r.scene.portraitMode_
         /\ r.scene.width_ # scene.width_

============================================================================
